---- MODULE Spec2Model ----
(***************************************************************************)
(* Production scheduling of the bakery system.                             *)
(*                                                                         *)
(* Spec      : the scheduling pass of create_default_data                  *)
(*             (backend/app/database.py), which turns the seeded orders    *)
(*             into scheduled tasks on the single resource schedule.       *)
(* SpecSeedFull  : that pass over the ten orders the code seeds.           *)
(* SpecHeuristic : one run of _generate_heuristic_schedule.                *)
(* SpecApi       : the HTTP handlers of backend/app/main.py.               *)
(* SpecDate      : one call of OrderCreate.validate_delivery_date.         *)
(* SpecOptimizer : one call of BakeryScheduler.schedule_orders.            *)
(* SpecOptimizerFair : such a call, one order a batch, every step that     *)
(*             stays possible taken in the end.                            *)
(*                                                                         *)
(* Times are whole minutes counted from start_date (2025-01-18 00:00);     *)
(* they may be negative (the evening before the first delivery day).       *)
(***************************************************************************)
EXTENDS Integers, Sequences, FiniteSets, TLC

(***************************************************************************)
(* Bounds of the model                                                     *)
(***************************************************************************)
\* number of seeded orders (the code seeds range(10))
NumOrders == 3

(***************************************************************************)
(* Program constants                                                       *)
(***************************************************************************)
MinutesPerHour == 60
MinutesPerDay == 1440
\* 15-minute buffer between steps, and after a conflicting interval
StepBufferMinutes == 15
\* "Start trying from 12 hours before deadline"
LookBackHours == 12
\* fixed pre-delivery buffer of the scheduling contract (1 hour)
PreDeliveryBufferMinutes == 1 * MinutesPerHour
\* kitchen_open_time = "08:00", kitchen_close_time = "19:00"
KitchenOpenHour == 8
KitchenCloseHour == 19
CookiesProductId == 23
BrowniesProductId == 24

\* delivery_slots of create_default_data; the model draws from the first two
delivery_slots == <<"10:00-12:00", "12:00-14:00", "14:00-16:00", "16:00-17:30">>
SlotChoices == {delivery_slots[1], delivery_slots[2]}
\* days_offset (the code draws randint(0, 6)); the model keeps to the first day
DaysOffsetChoices == {0}

\* order.delivery_slot.split('-')[0] parsed with "%H:%M", in minutes of the day
SlotStartMinutes(slot) ==
    CASE slot = "10:00-12:00" -> 10 * MinutesPerHour
      [] slot = "12:00-14:00" -> 12 * MinutesPerHour
      [] slot = "14:00-16:00" -> 14 * MinutesPerHour
      [] slot = "16:00-17:30" -> 16 * MinutesPerHour

\* product_options: (id, min_qty, max_qty)
product_options ==
    <<[id |-> 23, min_qty |-> 2, max_qty |-> 5],
      [id |-> 24, min_qty |-> 1, max_qty |-> 3],
      [id |-> 25, min_qty |-> 1, max_qty |-> 2],
      [id |-> 26, min_qty |-> 2, max_qty |-> 4]>>

\* recipes_data: the only recipe is the one of product 23 (cookies)
recipes_data ==
    <<[id |-> 1001, product_id |-> 23, requires_chilling |-> TRUE,
       max_chill_time |-> 240, min_batch_size |-> 3, max_batch_size |-> 12,
       steps |->
        <<[name |-> "Mixing", duration |-> 25, order |-> 1,
           requires_human |-> TRUE, requires_mixer |-> TRUE, requires_oven |-> FALSE,
           must_follow_immediately |-> FALSE, scaling_factor_pct |-> 70],
          [name |-> "Chilling", duration |-> 240, order |-> 2,
           requires_human |-> FALSE, requires_mixer |-> FALSE, requires_oven |-> FALSE,
           must_follow_immediately |-> FALSE, scaling_factor_pct |-> 100],
          [name |-> "Shaping", duration |-> 30, order |-> 3,
           requires_human |-> TRUE, requires_mixer |-> FALSE, requires_oven |-> FALSE,
           must_follow_immediately |-> TRUE, scaling_factor_pct |-> 100],
          [name |-> "Baking", duration |-> 15, order |-> 4,
           requires_human |-> FALSE, requires_mixer |-> FALSE, requires_oven |-> TRUE,
           must_follow_immediately |-> TRUE, scaling_factor_pct |-> 100]>>]>>

\* resources_data: the one resource, and the name every seeded task is booked on
resources_data == <<[id |-> 1, name |-> "Crubby"]>>
SeedResource == resources_data[1].name

\* str.lower() on the step names of the catalogue
Lower(name) ==
    CASE name = "Mixing" -> "mixing"
      [] name = "Chilling" -> "chilling"
      [] name = "Shaping" -> "shaping"
      [] name = "Baking" -> "baking"
      [] OTHER -> name

Min2(a, b) == IF a <= b THEN a ELSE b

RECURSIVE SumDurations(_)
SumDurations(steps) ==
    IF steps = <<>> THEN 0 ELSE Head(steps).duration + SumDurations(Tail(steps))

(***************************************************************************)
(* The seeded orders                                                       *)
(***************************************************************************)
\* the item lists an order is drawn with: random.sample of the product
\* options with a quantity in [min_qty, max_qty] each
ItemChoices ==
    { <<[product_id |-> CookiesProductId, quantity |-> 2]>>,
      <<[product_id |-> CookiesProductId, quantity |-> 5]>>,
      <<[product_id |-> BrowniesProductId, quantity |-> 1]>>,
      <<[product_id |-> BrowniesProductId, quantity |-> 3],
        [product_id |-> CookiesProductId, quantity |-> 3]>> }

OrderInputs ==
    [delivery_date : DaysOffsetChoices, delivery_slot : SlotChoices, items : ItemChoices]

\* the sort key f"{delivery_date} {slot start}": zero-padded, fixed width, so
\* the string order is the order of (day, minute of the day)
OrderKey(o) == o.delivery_date * MinutesPerDay + SlotStartMinutes(o.delivery_slot)

\* list.sort is stable: an order goes after every order whose key is <= its own
RECURSIVE InsertOrder(_, _)
InsertOrder(sorted, o) ==
    IF sorted = <<>> THEN <<o>>
    ELSE IF OrderKey(Head(sorted)) <= OrderKey(o)
         THEN <<Head(sorted)>> \o InsertOrder(Tail(sorted), o)
         ELSE <<o>> \o sorted

RECURSIVE SortOrders(_)
SortOrders(os) ==
    IF os = <<>> THEN <<>>
    ELSE InsertOrder(SortOrders(SubSeq(os, 1, Len(os) - 1)), os[Len(os)])

\* the i-th created order gets id i
MakeOrders(raw) ==
    [i \in 1..NumOrders |->
        [id |-> i, delivery_date |-> raw[i].delivery_date,
         delivery_slot |-> raw[i].delivery_slot, items |-> raw[i].items]]

\* session.query(RecipeDB).filter(product_id == ...).first(); <<>> when none
RecipeFor(product_id) ==
    LET found == {i \in 1..Len(recipes_data) : recipes_data[i].product_id = product_id}
    IN IF found = {} THEN <<>>
       ELSE <<recipes_data[CHOOSE i \in found : \A j \in found : i <= j]>>

(***************************************************************************)
(* find_available_slot                                                     *)
(***************************************************************************)
Overlaps(current, end_time, iv) == ~(end_time <= iv[1] \/ current >= iv[2])

\* the first interval of the schedule, in list order, that the candidate
\* [current, current + duration) overlaps; 0 when there is none
FirstOverlap(schedule, current, duration) ==
    LET hits == {i \in 1..Len(schedule) : Overlaps(current, current + duration, schedule[i])}
    IN IF hits = {} THEN 0 ELSE CHOOSE i \in hits : \A j \in hits : i <= j

\* mutation of find_available_slot: the requested start is returned unchecked
find_available_slot_unchecked(schedule, start_time, duration) == start_time

\* mutation of find_available_slot: on a conflict, retry before the
\* conflicting interval instead of after it
RECURSIVE find_available_slot_before(_, _, _)
find_available_slot_before(schedule, start_time, duration) ==
    LET hit == FirstOverlap(schedule, start_time, duration)
    IN IF hit = 0 THEN start_time
       ELSE find_available_slot_before(
                schedule, schedule[hit][1] - duration - StepBufferMinutes, duration)

\* mutation of find_available_slot: on a conflict, retry 15 days after the
\* conflicting interval instead of 15 minutes after it
RECURSIVE find_available_slot_days(_, _, _)
find_available_slot_days(schedule, start_time, duration) ==
    LET hit == FirstOverlap(schedule, start_time, duration)
    IN IF hit = 0 THEN start_time
       ELSE find_available_slot_days(
                schedule, schedule[hit][2] + StepBufferMinutes * MinutesPerDay, duration)

RECURSIVE find_available_slot(_, _, _)
find_available_slot(schedule, start_time, duration) ==
    LET hit == FirstOverlap(schedule, start_time, duration)
    IN IF hit = 0 THEN start_time
       ELSE find_available_slot(schedule, schedule[hit][2] + StepBufferMinutes, duration)

\* resource_schedule.append(...) then the stable sort by start time
RECURSIVE InsertInterval(_, _)
InsertInterval(schedule, iv) ==
    IF schedule = <<>> THEN <<iv>>
    ELSE IF Head(schedule)[1] <= iv[1]
         THEN <<Head(schedule)>> \o InsertInterval(Tail(schedule), iv)
         ELSE <<iv>> \o schedule

(***************************************************************************)
(* The heuristic scheduler (backend/app/scheduler.py)                      *)
(*                                                                         *)
(* _generate_heuristic_schedule is in the source; the two helpers it calls *)
(* and the resource list of a step are not, and are modelled from the      *)
(* scheduling contract.                                                    *)
(***************************************************************************)
\* settings.num_bakers, settings.num_ovens, settings.num_mixers
NumBakers == 2
NumOvens == 1
NumMixers == 2
\* max_look_ahead_days of BakeryScheduler.__init__
MaxLookAheadDays == 7

ResourceCategories == {"baker", "oven", "mixer"}

CategoryCapacity(r) ==
    CASE r = "baker" -> NumBakers
      [] r = "oven" -> NumOvens
      [] r = "mixer" -> NumMixers

\* step.resources: the categories the step's requires-flags name
StepResources(step) ==
    (IF step.requires_human THEN <<"baker">> ELSE <<>>)
    \o (IF step.requires_oven THEN <<"oven">> ELSE <<>>)
    \o (IF step.requires_mixer THEN <<"mixer">> ELSE <<>>)

SeqRange(seq) == {seq[k] : k \in 1..Len(seq)}

\* sorted(orders, key=(delivery_date, delivery_slot)): stable; the dates and
\* the slots are fixed-width strings, ordered as the day and the slot start
ApiOrderKey(o) == o.delivery_date * MinutesPerDay + SlotStartMinutes(o.delivery_slot)

\* Body at the value, which is computed once and in full
Bind(value, Body(_)) == CHOOSE out \in {Body(v) : v \in {w \in {value} : w = w}} : TRUE

RECURSIVE InsertApiOrder(_, _)
InsertApiOrder(sorted, o) ==
    Bind(sorted,
         LAMBDA list :
           IF list = <<>> THEN <<o>>
           ELSE IF ApiOrderKey(Head(list)) <= ApiOrderKey(o)
                THEN <<Head(list)>> \o InsertApiOrder(Tail(list), o)
                ELSE <<o>> \o list)

RECURSIVE SortApiOrders(_)
SortApiOrders(os) ==
    Bind(os,
         LAMBDA list :
           IF list = <<>> THEN <<>>
           ELSE InsertApiOrder(SortApiOrders(SubSeq(list, 1, Len(list) - 1)), list[Len(list)]))

\* bisect.insort: the (start, end) pair goes after every pair that is <= it
PairLE(a, b) == a[1] < b[1] \/ (a[1] = b[1] /\ a[2] <= b[2])

RECURSIVE Insort(_, _)
Insort(list, iv) ==
    Bind(list,
         LAMBDA pairs :
           IF pairs = <<>> THEN <<iv>>
           ELSE IF PairLE(Head(pairs), iv)
                THEN <<Head(pairs)>> \o Insort(Tail(pairs), iv)
                ELSE <<iv>> \o pairs)

\* reservations of one resource that are running at the instant
RunningAt(list, instant) ==
    Cardinality({k \in 1..Len(list) : list[k][1] <= instant /\ instant < list[k][2]})

\* [t, t + duration) lies within the kitchen hours of one day, and one more
\* reservation of each resource keeps it within capacity at every instant
SlotFeasible(t, duration, resources, resource_timeline) ==
    /\ (t % MinutesPerDay) >= KitchenOpenHour * MinutesPerHour
    /\ (t % MinutesPerDay) + duration <= KitchenCloseHour * MinutesPerHour
    /\ \A r \in SeqRange(resources) :
        LET list == resource_timeline[r]
            instants == {t} \cup {list[k][1] : k \in {n \in 1..Len(list) :
                                      t < list[n][1] /\ list[n][1] < t + duration}}
        IN \A x \in instants : RunningAt(list, x) < CategoryCapacity(r)

\* the earliest feasible start is the lower bound, the end of a reservation,
\* or the opening time of a day within the look-ahead horizon
SlotCandidates(start, resources, resource_timeline) ==
    {start}
    \cup UNION {{resource_timeline[r][k][2] : k \in 1..Len(resource_timeline[r])} :
                   r \in SeqRange(resources)}
    \cup {d * MinutesPerDay + KitchenOpenHour * MinutesPerHour :
             d \in (start \div MinutesPerDay)..(start \div MinutesPerDay + MaxLookAheadDays)}

\* _find_next_available_slot: <<t>> for the earliest feasible start t at or
\* after the lower bound within the horizon, <<>> when there is none
find_next_available_slot(start, duration, resources, resource_timeline) ==
    Bind({t \in SlotCandidates(start, resources, resource_timeline) :
             /\ t >= start
             /\ t <= start + MaxLookAheadDays * MinutesPerDay
             /\ SlotFeasible(t, duration, resources, resource_timeline)},
         LAMBDA feasible :
           IF feasible = {} THEN <<>>
           ELSE <<CHOOSE t \in feasible : \A u \in feasible : t <= u>>)

\* _calculate_earliest_starts: the steps laid end to end so that the last one
\* ends one hour before the delivery time
calculate_earliest_starts(order, recipe, resource_timeline) ==
    LET anchor == ApiOrderKey(order) - 1 * MinutesPerHour
    IN [k \in 1..Len(recipe.steps) |->
           anchor - SumDurations(SubSeq(recipe.steps, k, Len(recipe.steps)))]

RECURSIVE SumQuantities(_)
SumQuantities(items) ==
    IF items = <<>> THEN 0 ELSE Head(items).quantity + SumQuantities(Tail(items))

\* batchSize=order.items[0].quantity
TaskBatchSize(order) == order.items[1].quantity

\* the task of a step of an order that starts at start_time
StepTask(order, step, start_time) ==
    [orderId |-> order.id,
     step |-> step.name,
     startTime |-> start_time,
     endTime |-> start_time + step.duration,
     resources |-> StepResources(step),
     batchSize |-> TaskBatchSize(order),
     status |-> "pending"]

\* "bisect.insort(self.resource_timeline[resource], (start_time, end_time))"
\* for every resource of the task
ReserveTask(resource_timeline, task) ==
    [r \in ResourceCategories |->
        IF r \in SeqRange(task.resources)
        THEN Insort(resource_timeline[r], <<task.startTime, task.endTime>>)
        ELSE resource_timeline[r]]

\* "for step_idx, step in enumerate(recipe.steps)" from step_idx on
RECURSIVE ScheduleRecipeSteps(_, _, _, _, _, _)
ScheduleRecipeSteps(order, recipe, start_times, step_idx, resource_timeline, tasks) ==
    IF step_idx > Len(recipe.steps)
    THEN [ok |-> TRUE, resource_timeline |-> resource_timeline, tasks |-> tasks]
    ELSE
      Bind(find_next_available_slot(start_times[step_idx], recipe.steps[step_idx].duration,
                                    StepResources(recipe.steps[step_idx]), resource_timeline),
           LAMBDA slot :
             IF slot = <<>>
             THEN [ok |-> FALSE, resource_timeline |-> resource_timeline, tasks |-> tasks]
             ELSE Bind(StepTask(order, recipe.steps[step_idx], slot[1]),
                       LAMBDA task :
                         Bind(<<ReserveTask(resource_timeline, task), Append(tasks, task)>>,
                              LAMBDA booked :
                                ScheduleRecipeSteps(order, recipe, start_times, step_idx + 1,
                                                    booked[1], booked[2]))))

\* "for order in sorted_orders"
RECURSIVE ScheduleSortedOrders(_, _, _, _)
ScheduleSortedOrders(sorted_orders, recipe, resource_timeline, tasks) ==
    IF sorted_orders = <<>> THEN [ok |-> TRUE, tasks |-> tasks]
    ELSE
      Bind(ScheduleRecipeSteps(Head(sorted_orders), recipe,
                               calculate_earliest_starts(Head(sorted_orders), recipe,
                                                         resource_timeline),
                               1, resource_timeline, tasks),
           LAMBDA done :
             IF ~done.ok THEN [ok |-> FALSE, tasks |-> done.tasks]
             ELSE ScheduleSortedOrders(Tail(sorted_orders), recipe,
                                       done.resource_timeline, done.tasks))

\* the resource timeline every run starts from: defaultdict(list)
EmptyTimeline == [r \in ResourceCategories |-> <<>>]

generate_heuristic_schedule(orders_in, recipe) ==
    Bind(SortApiOrders(orders_in),
         LAMBDA sorted_orders : ScheduleSortedOrders(sorted_orders, recipe, EmptyTimeline, <<>>))

(***************************************************************************)
(* BakeryScheduler.schedule_orders (backend/app/scheduler.py): the         *)
(* population search over the batch of one product.  A candidate is a      *)
(* list of tasks whose step is the pair <<productType, stepName>> that     *)
(* _is_feasible reads with step.split('_').  The helpers that the source   *)
(* calls and does not define (_group_orders_for_batching,                  *)
(* _generate_initial_population, _tournament_select, _crossover, _mutate,  *)
(* _get_neighbors, _is_optimal_timing) are modelled from the optimizer's   *)
(* contract.                                                               *)
(***************************************************************************)
\* sorted(tasks, key=startTime): stable
RECURSIVE InsertTask(_, _)
InsertTask(sorted, t) ==
    Bind(sorted,
         LAMBDA list :
           IF list = <<>> THEN <<t>>
           ELSE IF Head(list).startTime <= t.startTime
                THEN <<Head(list)>> \o InsertTask(Tail(list), t)
                ELSE <<t>> \o list)

RECURSIVE SortTasks(_)
SortTasks(tasks) ==
    Bind(tasks,
         LAMBDA list :
           IF list = <<>> THEN <<>>
           ELSE InsertTask(SortTasks(SubSeq(list, 1, Len(list) - 1)), list[Len(list)]))

\* float('-inf'); every other score is a fraction <<numerator, denominator>>
\* in lowest terms with a positive denominator
NegInf == <<>>

RECURSIVE GCD(_, _)
GCD(a, b) == Bind(<<a, b>>, LAMBDA p : IF p[2] = 0 THEN p[1] ELSE GCD(p[2], p[1] % p[2]))

Abs(n) == IF n < 0 THEN -n ELSE n

Fraction(n, d) ==
    Bind(<<n, d, IF d < 0 THEN -1 ELSE 1>>,
         LAMBDA p : Bind(GCD(Abs(p[1]), Abs(p[2])),
                         LAMBDA g : <<(p[3] * p[1]) \div g, (p[3] * p[2]) \div g>>))

FractionAdd(a, b) ==
    Bind(<<a, b>>,
         LAMBDA p : Fraction(p[1][1] * p[2][2] + p[2][1] * p[1][2], p[1][2] * p[2][2]))

\* a < b on scores
ScoreLess(a, b) ==
    IF b = NegInf THEN FALSE
    ELSE IF a = NegInf THEN TRUE
    ELSE a[1] * b[2] < b[1] * a[2]

\* _is_optimal_timing: the task lies within the kitchen hours of one day
is_optimal_timing(task) ==
    /\ (task.startTime % MinutesPerDay) >= KitchenOpenHour * MinutesPerHour
    /\ (task.startTime % MinutesPerDay) + (task.endTime - task.startTime)
         <= KitchenCloseHour * MinutesPerHour

\* thresholds = np.array([10, 20, 30, 40, 50, 60])
EtsThresholds == <<10, 20, 30, 40, 50, 60>>

\* the term one threshold adds to total_ets
EtsTerm(schedule, threshold) ==
    LET idx == 1..Len(schedule)
        pred_pos(k) == schedule[k].endTime - schedule[k].startTime >= threshold
        true_pos(k) == is_optimal_timing(schedule[k])
        total == Len(schedule)
    IN Bind([hits |-> Cardinality({k \in idx : pred_pos(k) /\ true_pos(k)}),
             misses |-> Cardinality({k \in idx : ~pred_pos(k) /\ true_pos(k)}),
             false_alarms |-> Cardinality({k \in idx : pred_pos(k) /\ ~true_pos(k)})],
            LAMBDA n :
              \* chance = product / total; both quotients below are times total
              Bind((n.hits + n.misses) * (n.hits + n.false_alarms),
                   LAMBDA product :
                     Bind((n.hits + n.misses + n.false_alarms) * total - product,
                          LAMBDA denominator :
                            IF denominator > 0
                            THEN Fraction(n.hits * total - product, denominator)
                            ELSE Fraction(0, 1))))

RECURSIVE SumEtsTerms(_, _)
SumEtsTerms(schedule, k) ==
    IF k > Len(EtsThresholds) THEN Fraction(0, 1)
    ELSE FractionAdd(EtsTerm(schedule, EtsThresholds[k]), SumEtsTerms(schedule, k + 1))

\* total_ets / len(thresholds)
EtsValue(schedule) ==
    Bind(SumEtsTerms(schedule, 1),
         LAMBDA total_ets : Fraction(total_ets[1], total_ets[2] * Len(EtsThresholds)))

\* where a resource is first named: the task, then the place in its list
FirstUse(schedule, resource) ==
    LET width == Cardinality(ResourceCategories) + 1
        uses == {k * width + j : k \in 1..Len(schedule), j \in 1..Cardinality(ResourceCategories)}
        named == {u \in uses :
                    /\ (u % width) \in 1..Len(schedule[u \div width].resources)
                    /\ schedule[u \div width].resources[u % width] = resource}
    IN CHOOSE u \in named : \A w \in named : u <= w

\* the keys of the dict "resources", in the order they are first inserted
ResourceKeys(schedule) ==
    LET names == UNION {SeqRange(schedule[k].resources) : k \in 1..Len(schedule)}
        place(r) == 1 + Cardinality({q \in names : FirstUse(schedule, q) < FirstUse(schedule, r)})
    IN [i \in 1..Cardinality(names) |-> CHOOSE r \in names : place(r) = i]

\* resources[resource]: the (start, end) of the tasks that use it, in task order
IntervalsOf(schedule, resource) ==
    LET using == SelectSeq(schedule, LAMBDA t : resource \in SeqRange(t.resources))
    IN [k \in 1..Len(using) |-> <<using[k].startTime, using[k].endTime>>]

\* any(i1[1] > i2[0] for i1, i2 in zip(intervals[:-1], intervals[1:]))
AdjacentOverlap(intervals) ==
    \E k \in 1..(Len(intervals) - 1) : intervals[k][2] > intervals[k + 1][1]

\* sorted(intervals)
RECURSIVE SortPairs(_)
SortPairs(intervals) ==
    Bind(intervals,
         LAMBDA list :
           IF list = <<>> THEN <<>>
           ELSE Insort(SortPairs(SubSeq(list, 1, Len(list) - 1)), list[Len(list)]))

\* "for resource, intervals in resources.items()" from the k-th key on: a
\* resource that is in the cache is checked, one that is not is cached
RECURSIVE CheckResources(_, _, _, _)
CheckResources(schedule, keys, k, usage_cache) ==
    IF k > Len(keys) THEN [ok |-> TRUE, resource_usage_cache |-> usage_cache]
    ELSE Bind([resource |-> keys[k], intervals |-> IntervalsOf(schedule, keys[k])],
              LAMBDA at :
                IF at.resource \in DOMAIN usage_cache
                THEN IF AdjacentOverlap(at.intervals)
                     THEN [ok |-> FALSE, resource_usage_cache |-> usage_cache]
                     ELSE CheckResources(schedule, keys, k + 1, usage_cache)
                ELSE Bind([r \in DOMAIN usage_cache \cup {at.resource} |->
                              IF r = at.resource THEN SortPairs(at.intervals)
                              ELSE usage_cache[r]],
                          LAMBDA cached : CheckResources(schedule, keys, k + 1, cached)))

\* actual_steps == expected_steps for the tasks of one order, sorted by start
StepsAsExpected(schedule, order_id) ==
    Bind(SortTasks(SelectSeq(schedule, LAMBDA t : t.orderId = order_id)),
         LAMBDA order_tasks :
            LET recipe == RecipeFor(order_tasks[1].step[1])[1]
                expected_steps == [k \in 1..Len(recipe.steps) |-> recipe.steps[k].name]
                actual_steps == [k \in 1..Len(order_tasks) |-> order_tasks[k].step[2]]
            IN actual_steps = expected_steps)

\* "for order_id in {task.orderId for task in schedule}" from the k-th id of
\* the set's iteration order on: an order in the cache is passed over
RECURSIVE CheckPrecedence(_, _, _, _)
CheckPrecedence(schedule, ids, k, dep_cache) ==
    IF k > Len(ids) THEN [ok |-> TRUE, dependency_cache |-> dep_cache]
    ELSE IF ids[k] \in dep_cache
         THEN CheckPrecedence(schedule, ids, k + 1, dep_cache)
         ELSE IF ~StepsAsExpected(schedule, ids[k])
              THEN [ok |-> FALSE, dependency_cache |-> dep_cache]
              ELSE CheckPrecedence(schedule, ids, k + 1, dep_cache \cup {ids[k]})

\* _is_feasible with the caches it reads and writes; set_order is the
\* iteration order of a set of order ids in this process
is_feasible(schedule, set_order, caches) ==
    Bind(Bind(<<ResourceKeys(schedule), caches.resource_usage_cache>>,
              LAMBDA given : CheckResources(schedule, given[1], 1, given[2])),
         LAMBDA res :
            IF ~res.ok
            THEN [ok |-> FALSE, resource_usage_cache |-> res.resource_usage_cache,
                  dependency_cache |-> caches.dependency_cache]
            ELSE Bind(CheckPrecedence(schedule,
                          SelectSeq(set_order,
                              LAMBDA id : \E k \in 1..Len(schedule) : schedule[k].orderId = id),
                          1, caches.dependency_cache),
                      LAMBDA dep :
                         [ok |-> dep.ok, resource_usage_cache |-> res.resource_usage_cache,
                          dependency_cache |-> dep.dependency_cache]))

\* _calculate_ets_score, with the caches after the call
calculate_ets_score(schedule, set_order, caches) ==
    Bind(is_feasible(schedule, set_order, caches),
         LAMBDA checked :
            [score |-> IF checked.ok THEN EtsValue(schedule) ELSE NegInf,
             resource_usage_cache |-> checked.resource_usage_cache,
             dependency_cache |-> checked.dependency_cache])

\* the keys of a list of candidates, computed from the first to the last
RECURSIVE ScoreEach(_, _, _, _)
ScoreEach(candidates, set_order, caches, scores) ==
    IF Len(scores) = Len(candidates)
    THEN [scores |-> scores, resource_usage_cache |-> caches.resource_usage_cache,
          dependency_cache |-> caches.dependency_cache]
    ELSE Bind(calculate_ets_score(candidates[Len(scores) + 1], set_order, caches),
              LAMBDA one :
                 Bind(Append(scores, one.score),
                      LAMBDA longer :
                         ScoreEach(candidates, set_order,
                                   [resource_usage_cache |-> one.resource_usage_cache,
                                    dependency_cache |-> one.dependency_cache],
                                   longer)))

\* the positions 1..n in the order sorted(..., key=score) puts them: stable,
\* ascending
SortedByScore(scores) ==
    LET place(k) == 1 + Cardinality({j \in 1..Len(scores) :
                                        \/ ScoreLess(scores[j], scores[k])
                                        \/ (j < k /\ ~ScoreLess(scores[k], scores[j]))})
    IN [i \in 1..Len(scores) |-> CHOOSE k \in 1..Len(scores) : place(k) = i]

\* seq[-2:]
LastTwo(seq) == SubSeq(seq, IF Len(seq) > 2 THEN Len(seq) - 1 ELSE 1, Len(seq))

\* max(candidates, key=score): the position of the first maximum
MaxByScore(scores) ==
    CHOOSE k \in 1..Len(scores) :
        /\ \A j \in 1..Len(scores) : ~ScoreLess(scores[k], scores[j])
        /\ \A j \in 1..(k - 1) : ScoreLess(scores[j], scores[k])

\* the candidate with the k-th task moved by delta minutes
ShiftTask(schedule, k, delta) ==
    [schedule EXCEPT ![k].startTime = @ + delta, ![k].endTime = @ + delta]

\* _get_neighbors: every schedule that differs by one task moved one buffer
\* earlier or later
get_neighbors(schedule) ==
    [i \in 1..(2 * Len(schedule)) |->
        ShiftTask(schedule, (i + 1) \div 2,
                  IF i % 2 = 1 THEN -StepBufferMinutes ELSE StepBufferMinutes)]

\* _get_move_hash: hash of the (orderId, startTime, endTime) of the tasks
get_move_hash(schedule) ==
    [k \in 1..Len(schedule) |->
        <<schedule[k].orderId, schedule[k].startTime, schedule[k].endTime>>]

\* _crossover: the children are the parents with the tasks of one order swapped
crossover(parent1, parent2, order_id) ==
    LET swap(own, other) ==
            [k \in 1..Len(own) |->
                IF own[k].orderId = order_id /\ k <= Len(other) /\ other[k].orderId = order_id
                THEN other[k] ELSE own[k]]
    IN <<swap(parent1, parent2), swap(parent2, parent1)>>

\* the tasks of _generate_heuristic_schedule with the step named
\* productType_stepName
TagSteps(tasks, product_type) ==
    [k \in 1..Len(tasks) |-> [tasks[k] EXCEPT !.step = <<product_type, @>>]]

\* _group_orders_for_batching: the orders by the product of their first
\* item, the products in the order they first appear
RECURSIVE group_orders_for_batching(_, _)
group_orders_for_batching(sorted_orders, batches) ==
    IF sorted_orders = <<>> THEN batches
    ELSE LET order == Head(sorted_orders)
             product_type == order.items[1].product_id
             at == {k \in 1..Len(batches) : batches[k][1] = product_type}
         IN Bind(IF at = {} THEN Append(batches, <<product_type, <<order>>>>)
                 ELSE [k \in 1..Len(batches) |->
                         IF k \in at THEN <<product_type, Append(batches[k][2], order)>>
                         ELSE batches[k]],
                 LAMBDA grouped : group_orders_for_batching(Tail(sorted_orders), grouped))

(***************************************************************************)
(* State                                                                   *)
(***************************************************************************)
VARIABLES
    \* the scheduling pass of create_default_data
    orders,             \* the seeded orders, sorted by delivery date and slot
    pc,                 \* "item": at the head of the item loop; "step": in the step loop; "done"
    oi,                 \* index of the current order
    ii,                 \* index of the current item of that order
    si,                 \* index of the next recipe step of the current item
    current_time,       \* where the search for the next step starts
    resource_schedule,  \* list of (start, end), kept sorted by start
    scheduled_tasks,    \* the ScheduledTaskDB rows, in creation order
    \* one run of _generate_heuristic_schedule
    h_pc,               \* "ready" before the run, "done" after it
    h_orders,           \* the orders handed to the run
    h_schedule,         \* what the run returned: [ok, tasks]
    \* the order-creation endpoint and the database behind it
    today,              \* the current date, in days from start_date
    requests,           \* number of requests handled
    db_orders,          \* OrderDB rows
    db_order_items,     \* OrderItemDB rows
    db_scheduled_tasks, \* ScheduledTaskDB rows
    response,           \* the answer to the last request
    last_request,       \* the last request handled
    scheduler_calls,    \* number of calls of scheduler.schedule_order
    valid_seen,         \* the orders that /orders/validate found valid without warnings
    \* one call of OrderCreate.validate_delivery_date
    date_pc,            \* "ready" before the call, "done" after it
    date_text,          \* the delivery_date string, as its characters
    date_now,           \* datetime.now().date(), as <<year, month, day>>
    date_result,        \* "returned" or the message of the ValueError raised
    \* one call of BakeryScheduler.schedule_orders
    opt_pc,             \* "ready", "batch", "generation", "fill", "search", "done", "failed"
    opt_orders,         \* the orders handed to the call
    set_order,          \* the order ids, in the order a set of them is iterated
    order_batches,      \* <<product type, orders>> pairs, in insertion order
    batch_idx,          \* index of the batch at hand
    all_tasks,          \* the tasks of the batches scheduled so far
    population,         \* the candidates of the generation
    new_population,     \* the candidates of the next generation
    elite,              \* the last two of the population sorted by score
    elite_scores,       \* the scores the sort gave them
    iteration,          \* generations completed for the batch
    best_schedule,      \* <<>> for None, <<schedule>> otherwise
    best_score,
    current,            \* the schedule _local_search is at
    tabu_list,
    ls_iter,            \* rounds of _local_search completed
    resource_usage_cache, \* resource -> sorted intervals
    dependency_cache,   \* the order ids that map to True
    opt_result,         \* what the call returned or raised
    mutations           \* calls of _mutate so far

seed_vars == <<orders, pc, oi, ii, si, current_time, resource_schedule, scheduled_tasks>>
heuristic_vars == <<h_pc, h_orders, h_schedule>>
api_vars == <<today, requests, db_orders, db_order_items, db_scheduled_tasks, response,
              last_request, scheduler_calls, valid_seen>>
date_vars == <<date_pc, date_text, date_now, date_result>>
optimizer_vars == <<opt_pc, opt_orders, set_order, order_batches, batch_idx, all_tasks,
                    population, new_population, elite, elite_scores, iteration,
                    best_schedule, best_score, current, tabu_list, ls_iter,
                    resource_usage_cache, dependency_cache, opt_result, mutations>>
vars == <<seed_vars, heuristic_vars, api_vars, date_vars, optimizer_vars>>

CurOrder == orders[oi]
CurItem == CurOrder.items[ii]
CurRecipe == RecipeFor(CurItem.product_id)

\* datetime.strptime(f"{delivery_date} {slot start}")
DeliveryDatetime(o) == o.delivery_date * MinutesPerDay + SlotStartMinutes(o.delivery_slot)

\* latest_start - 12 hours, with latest_start = delivery - (durations + buffers)
InitialCurrentTime(o, steps) ==
    LET total_duration == SumDurations(steps)
        buffer_time == (Len(steps) - 1) * StepBufferMinutes
        latest_start == DeliveryDatetime(o) - (total_duration + buffer_time)
    IN latest_start - LookBackHours * MinutesPerHour

BatchSize(quantity, recipe) == Min2(quantity, recipe.max_batch_size)

\* the run of _generate_heuristic_schedule is not part of the specification
HeuristicIdle ==
    /\ h_pc = "idle"
    /\ h_orders = <<>>
    /\ h_schedule = [ok |-> TRUE, tasks |-> <<>>]

\* the order-creation endpoint is not part of the specification
ApiIdle ==
    /\ today = 0
    /\ requests = 0
    /\ db_orders = <<>>
    /\ db_order_items = <<>>
    /\ db_scheduled_tasks = <<>>
    /\ response = [status |-> 0, tasks |-> <<>>]
    /\ last_request = [kind |-> "none"]
    /\ scheduler_calls = 0
    /\ valid_seen = {}

\* the call of validate_delivery_date is not part of the specification
DateIdle ==
    /\ date_pc = "idle"
    /\ date_text = <<>>
    /\ date_now = <<2025, 1, 18>>
    /\ date_result = "none"

\* _setup_caches: defaultdict(dict) with no key
EmptyUsageCache == [r \in {} |-> <<>>]

\* BakeryScheduler.schedule_orders is not part of the specification
OptimizerIdle ==
    /\ opt_pc = "idle"
    /\ opt_orders = <<>>
    /\ set_order = <<>>
    /\ order_batches = <<>>
    /\ batch_idx = 0
    /\ all_tasks = <<>>
    /\ population = <<>>
    /\ new_population = <<>>
    /\ elite = <<>>
    /\ elite_scores = <<>>
    /\ iteration = 0
    /\ best_schedule = <<>>
    /\ best_score = NegInf
    /\ current = <<>>
    /\ tabu_list = {}
    /\ ls_iter = 0
    /\ resource_usage_cache = EmptyUsageCache
    /\ dependency_cache = {}
    /\ opt_result = [kind |-> "none"]
    /\ mutations = 0

\* the scheduling pass of create_default_data is not part of the specification
SeedIdle ==
    /\ orders = <<>>
    /\ pc = "idle"
    /\ oi = 1
    /\ ii = 1
    /\ si = 1
    /\ current_time = 0
    /\ resource_schedule = <<>>
    /\ scheduled_tasks = <<>>

Init ==
    /\ HeuristicIdle
    /\ ApiIdle
    /\ DateIdle
    /\ OptimizerIdle
    /\ \E raw \in [1..NumOrders -> OrderInputs] : orders = SortOrders(MakeOrders(raw))
    /\ pc = "item"
    /\ oi = 1
    /\ ii = 1
    /\ si = 1
    /\ current_time = 0
    /\ resource_schedule = <<>>
    /\ scheduled_tasks = <<>>

\* the item has a recipe: fetch its steps and compute where to start trying
BeginItem ==
    /\ pc = "item"
    /\ oi <= Len(orders)
    /\ ii <= Len(CurOrder.items)
    /\ CurRecipe # <<>>
    /\ current_time' = InitialCurrentTime(CurOrder, CurRecipe[1].steps)
    /\ si' = 1
    /\ pc' = "step"
    /\ UNCHANGED <<orders, oi, ii, resource_schedule, scheduled_tasks>>
    /\ UNCHANGED <<heuristic_vars, api_vars, date_vars, optimizer_vars>>

\* "if recipe:" fails: the item is passed over
SkipItem ==
    /\ pc = "item"
    /\ oi <= Len(orders)
    /\ ii <= Len(CurOrder.items)
    /\ CurRecipe = <<>>
    /\ ii' = ii + 1
    /\ UNCHANGED <<orders, pc, oi, si, current_time, resource_schedule, scheduled_tasks>>
    /\ UNCHANGED <<heuristic_vars, api_vars, date_vars, optimizer_vars>>

\* one pass of "for step in steps"
ScheduleStep ==
    /\ pc = "step"
    /\ si <= Len(CurRecipe[1].steps)
    /\ LET recipe == CurRecipe[1]
           step == recipe.steps[si]
           start_time == find_available_slot(resource_schedule, current_time, step.duration)
           end_time == start_time + step.duration
           scheduled_task ==
               [order_id |-> CurOrder.id,
                order_item_id |-> <<CurOrder.id, ii>>,
                step |-> Lower(step.name),
                start_time |-> start_time,
                end_time |-> end_time,
                resources |-> <<SeedResource>>,
                batch_size |-> BatchSize(CurItem.quantity, recipe),
                status |-> "pending"]
       IN /\ scheduled_tasks' = Append(scheduled_tasks, scheduled_task)
          /\ resource_schedule' = InsertInterval(resource_schedule, <<start_time, end_time>>)
          /\ current_time' = end_time + StepBufferMinutes
    /\ si' = si + 1
    /\ UNCHANGED <<orders, pc, oi, ii>>
    /\ UNCHANGED <<heuristic_vars, api_vars, date_vars, optimizer_vars>>

\* the step loop of the item is exhausted
EndItem ==
    /\ pc = "step"
    /\ si > Len(CurRecipe[1].steps)
    /\ ii' = ii + 1
    /\ pc' = "item"
    /\ UNCHANGED <<orders, oi, si, current_time, resource_schedule, scheduled_tasks>>
    /\ UNCHANGED <<heuristic_vars, api_vars, date_vars, optimizer_vars>>

\* the item loop of the order is exhausted: session.flush(), next order
NextOrder ==
    /\ pc = "item"
    /\ oi <= Len(orders)
    /\ ii > Len(CurOrder.items)
    /\ oi' = oi + 1
    /\ ii' = 1
    /\ UNCHANGED <<orders, pc, si, current_time, resource_schedule, scheduled_tasks>>
    /\ UNCHANGED <<heuristic_vars, api_vars, date_vars, optimizer_vars>>

\* every order is handled: session.commit()
Commit ==
    /\ pc = "item"
    /\ oi > Len(orders)
    /\ pc' = "done"
    /\ UNCHANGED <<orders, oi, ii, si, current_time, resource_schedule, scheduled_tasks>>
    /\ UNCHANGED <<heuristic_vars, api_vars, date_vars, optimizer_vars>>

Next == BeginItem \/ SkipItem \/ ScheduleStep \/ EndItem \/ NextOrder \/ Commit

Spec == Init /\ [][Next]_vars

(***************************************************************************)
(* SpecSeedFull: the scheduling pass over as many orders as the code       *)
(* seeds, all for the same slot of the first day (where they compete       *)
(* most), run to its end                                                   *)
(***************************************************************************)
\* for i in range(10)
SeedOrderCount == 10

\* the item lists of these orders: cookies alone, or after a product that
\* has no recipe
FullOrderItems ==
    << <<[product_id |-> CookiesProductId, quantity |-> 5]>>,
       <<[product_id |-> BrowniesProductId, quantity |-> 1],
         [product_id |-> CookiesProductId, quantity |-> 2]>> >>

InitSeedFull ==
    /\ HeuristicIdle
    /\ ApiIdle
    /\ DateIdle
    /\ OptimizerIdle
    /\ \E slot \in SlotChoices, unknown \in 0..SeedOrderCount :
         orders = SortOrders([i \in 1..SeedOrderCount |->
                     [id |-> i, delivery_date |-> 0, delivery_slot |-> slot,
                      items |-> IF i = unknown THEN FullOrderItems[2]
                                               ELSE FullOrderItems[1]]])
    /\ pc = "item"
    /\ oi = 1
    /\ ii = 1
    /\ si = 1
    /\ current_time = 0
    /\ resource_schedule = <<>>
    /\ scheduled_tasks = <<>>

SpecSeedFull == InitSeedFull /\ [][Next]_vars

(***************************************************************************)
(* SpecHeuristic: one run of _generate_heuristic_schedule on a list of     *)
(* orders of the recipe's product                                          *)
(***************************************************************************)
\* orders per run
MaxBatchOrders == 3

\* the item lists of the orders handed to the scheduler
HeuristicItemChoices ==
    { <<[product_id |-> CookiesProductId, quantity |-> 2]>>,
      <<[product_id |-> CookiesProductId, quantity |-> 15]>>,
      <<[product_id |-> CookiesProductId, quantity |-> 6],
        [product_id |-> CookiesProductId, quantity |-> 4]>> }

HeuristicOrderInputs ==
    [delivery_date : DaysOffsetChoices, delivery_slot : SlotChoices,
     items : HeuristicItemChoices]

\* the orders of a run, the k-th with id k
WithIds(raw) ==
    [k \in 1..Len(raw) |->
        [id |-> k, delivery_date |-> raw[k].delivery_date,
         delivery_slot |-> raw[k].delivery_slot, items |-> raw[k].items]]

\* the recipe the scheduler is run with
HeuristicRecipe == RecipeFor(CookiesProductId)[1]

InitHeuristic ==
    /\ SeedIdle
    /\ ApiIdle
    /\ DateIdle
    /\ OptimizerIdle
    /\ h_pc = "ready"
    /\ \E n \in 1..MaxBatchOrders :
         \E raw \in [1..n -> HeuristicOrderInputs] : h_orders = WithIds(raw)
    /\ h_schedule = [ok |-> TRUE, tasks |-> <<>>]

GenerateHeuristicSchedule ==
    /\ h_pc = "ready"
    /\ h_schedule' = generate_heuristic_schedule(h_orders, HeuristicRecipe)
    /\ h_pc' = "done"
    /\ UNCHANGED h_orders
    /\ UNCHANGED <<seed_vars, api_vars, date_vars, optimizer_vars>>

NextHeuristic == GenerateHeuristicSchedule

SpecHeuristic == InitHeuristic /\ [][NextHeuristic]_vars

(***************************************************************************)
(* SpecApi: POST /orders, POST /orders/validate, PUT /tasks/{id}/timing    *)
(* and PUT /tasks/{id}/status (backend/app/main.py) over the database.     *)
(* validate_order and schedule_order of the scheduler are not in the       *)
(* source and are modelled from the scheduling contract.                   *)
(***************************************************************************)
\* requests handled in a run
MaxRequests == 3

ApiItemChoices ==
    { <<[product_id |-> CookiesProductId, quantity |-> 6]>>,
      <<[product_id |-> CookiesProductId, quantity |-> 15]>>,
      <<[product_id |-> CookiesProductId, quantity |-> 6],
        [product_id |-> CookiesProductId, quantity |-> 4]>>,
      <<[product_id |-> BrowniesProductId, quantity |-> 1]>> }

\* delivery dates of the requests: yesterday and today
ApiDateChoices == {-1, 0}

ApiOrderInputs ==
    [delivery_date : ApiDateChoices, delivery_slot : SlotChoices, items : ApiItemChoices]

\* mutation of validate_order: an order that was validated before is turned
\* down as a duplicate
validate_order_once(order, now) ==
    [isValid |-> /\ \A k \in 1..Len(order.items) : RecipeFor(order.items[k].product_id) # <<>>
                 /\ order.delivery_date >= now
                 /\ \A seen \in valid_seen :
                        ~(/\ seen.delivery_date = order.delivery_date
                          /\ seen.delivery_slot = order.delivery_slot
                          /\ seen.items = order.items),
     warnings |-> 0]

\* validate_order: every item's product has a recipe and the delivery date is
\* not in the past; a quantity outside the batch bounds is a warning only
validate_order(order, now) ==
    LET unknown == {k \in 1..Len(order.items) : RecipeFor(order.items[k].product_id) = <<>>}
        off_bounds ==
            {k \in 1..Len(order.items) :
                /\ k \notin unknown
                /\ LET recipe == RecipeFor(order.items[k].product_id)[1]
                   IN \/ order.items[k].quantity < recipe.min_batch_size
                      \/ order.items[k].quantity > recipe.max_batch_size}
    IN [isValid |-> unknown = {} /\ order.delivery_date >= now,
        warnings |-> Cardinality(off_bounds)]

\* schedule_order: the heuristic schedule of the one order with the recipe of
\* its product, by a scheduler constructed for the request, sorted by start
schedule_order(order) ==
    LET run == generate_heuristic_schedule(<<order>>, RecipeFor(order.items[1].product_id)[1])
    IN [ok |-> run.ok, tasks |-> SortTasks(run.tasks)]

\* mutation of ZipTasks: the start and the end of a task are stored swapped
ZipTasks_swapped(order, n_items, tasks) ==
    [k \in 1..Min2(n_items, Len(tasks)) |->
        [order_id |-> order.id,
         order_item_id |-> <<order.id, k>>,
         step |-> tasks[k].step,
         start_time |-> tasks[k].endTime,
         end_time |-> tasks[k].startTime,
         resources |-> tasks[k].resources,
         batch_size |-> tasks[k].batchSize,
         status |-> tasks[k].status]]

\* OrderRepository.create_order: the ScheduledTaskDB rows, one per pair of
\* zip(db_items, tasks)
ZipTasks(order, n_items, tasks) ==
    [k \in 1..Min2(n_items, Len(tasks)) |->
        [order_id |-> order.id,
         order_item_id |-> <<order.id, k>>,
         step |-> tasks[k].step,
         start_time |-> tasks[k].startTime,
         end_time |-> tasks[k].endTime,
         resources |-> tasks[k].resources,
         batch_size |-> tasks[k].batchSize,
         status |-> tasks[k].status]]

\* self._get(item.product): the ProductDB row of the item's product
ProductRow(product_id) == [id |-> product_id]

OrderItemRows(order) ==
    [k \in 1..Len(order.items) |->
        [id |-> <<order.id, k>>, order_id |-> order.id,
         product_id |-> ProductRow(order.items[k].product_id).id,
         quantity |-> order.items[k].quantity]]

\* the OrderDB row of an order
OrderRow(order) ==
    [id |-> order.id, delivery_date |-> order.delivery_date,
     delivery_slot |-> order.delivery_slot, status |-> "new"]

\* what the database does with the two commits of create_order: both go
\* through, or one of them raises SQLAlchemyError
DbFaults == {"none", "first_commit", "second_commit"}

InitApi ==
    /\ SeedIdle
    /\ HeuristicIdle
    /\ DateIdle
    /\ OptimizerIdle
    /\ today = 0
    /\ requests = 0
    /\ db_orders = <<>>
    /\ db_order_items = <<>>
    /\ db_scheduled_tasks = <<>>
    /\ response = [status |-> 0, tasks |-> <<>>]
    /\ last_request = [kind |-> "none"]
    /\ scheduler_calls = 0
    /\ valid_seen = {}

\* the order a request carries; POST /orders gives it the id of the request
RequestOrder(id, input) ==
    [id |-> id, delivery_date |-> input.delivery_date,
     delivery_slot |-> input.delivery_slot, items |-> input.items]

\* mutation of CreateOrder: the order is scheduled and saved whatever the
\* validation returned
CreateOrder_unvalidated ==
    /\ requests < MaxRequests
    /\ \E input \in ApiOrderInputs :
        LET order == RequestOrder(requests + 1, input)
            known == \A k \in 1..Len(order.items) : RecipeFor(order.items[k].product_id) # <<>>
            scheduled == IF known THEN schedule_order(order) ELSE [ok |-> FALSE, tasks |-> <<>>]
        IN /\ last_request' = [kind |-> "create", order |-> input]
           /\ scheduler_calls' = scheduler_calls + 1
           /\ IF ~scheduled.ok
              THEN /\ response' = [status |-> 500, tasks |-> <<>>]
                   /\ UNCHANGED <<db_orders, db_order_items, db_scheduled_tasks>>
              ELSE \E db_fault \in DbFaults :
                   /\ db_orders' = IF db_fault = "first_commit" THEN db_orders
                                   ELSE Append(db_orders, OrderRow(order))
                   /\ db_order_items' = IF db_fault = "first_commit" THEN db_order_items
                                        ELSE db_order_items \o OrderItemRows(order)
                   /\ db_scheduled_tasks' =
                        IF db_fault = "none"
                        THEN db_scheduled_tasks
                                \o ZipTasks(order, Len(order.items), scheduled.tasks)
                        ELSE db_scheduled_tasks
                   /\ response' = IF db_fault = "none"
                                  THEN [status |-> 200, tasks |-> scheduled.tasks]
                                  ELSE [status |-> 500, tasks |-> <<>>]
    /\ requests' = requests + 1
    /\ UNCHANGED <<today, valid_seen>>
    /\ UNCHANGED <<seed_vars, heuristic_vars, date_vars, optimizer_vars>>

\* POST /orders: validate, schedule, save
CreateOrder ==
    /\ requests < MaxRequests
    /\ \E input \in ApiOrderInputs :
        LET order == RequestOrder(requests + 1, input)
            checked == validate_order(order, today)
        IN /\ last_request' = [kind |-> "create", order |-> input]
           /\ IF ~checked.isValid
              THEN /\ response' = [status |-> 400, tasks |-> <<>>]
                   /\ UNCHANGED <<db_orders, db_order_items, db_scheduled_tasks>>
                   /\ UNCHANGED scheduler_calls
              ELSE
                LET scheduled == schedule_order(order)
                IN /\ scheduler_calls' = scheduler_calls + 1
                   /\ IF ~scheduled.ok
                      THEN /\ response' = [status |-> 500, tasks |-> <<>>]
                           /\ UNCHANGED <<db_orders, db_order_items, db_scheduled_tasks>>
                      ELSE
                        \* OrderRepository.create_order: the order and its items
                        \* are committed first, the tasks second; a commit that
                        \* raises SQLAlchemyError is rolled back and answered 500
                        \E db_fault \in DbFaults :
                           /\ db_orders' = IF db_fault = "first_commit" THEN db_orders
                                           ELSE Append(db_orders, OrderRow(order))
                           /\ db_order_items' =
                                IF db_fault = "first_commit" THEN db_order_items
                                ELSE db_order_items \o OrderItemRows(order)
                           /\ db_scheduled_tasks' =
                                IF db_fault = "none"
                                THEN db_scheduled_tasks
                                        \o ZipTasks(order, Len(order.items), scheduled.tasks)
                                ELSE db_scheduled_tasks
                           /\ response' = IF db_fault = "none"
                                          THEN [status |-> 200, tasks |-> scheduled.tasks]
                                          ELSE [status |-> 500, tasks |-> <<>>]
    /\ requests' = requests + 1
    /\ UNCHANGED <<today, valid_seen>>
    /\ UNCHANGED <<seed_vars, heuristic_vars, date_vars, optimizer_vars>>

\* POST /orders/validate: the validation result is the whole answer
ValidateOrder ==
    /\ requests < MaxRequests
    /\ \E input \in ApiOrderInputs :
        LET checked == validate_order(RequestOrder(0, input), today)
        IN /\ last_request' = [kind |-> "validate", order |-> input,
                               repeat |-> input \in valid_seen]
           /\ response' = [status |-> 200, tasks |-> <<>>,
                           isValid |-> checked.isValid, warnings |-> checked.warnings]
           /\ valid_seen' = IF checked.isValid /\ checked.warnings = 0
                            THEN valid_seen \cup {input} ELSE valid_seen
    /\ requests' = requests + 1
    /\ UNCHANGED <<today, db_orders, db_order_items, db_scheduled_tasks, scheduler_calls>>
    /\ UNCHANGED <<seed_vars, heuristic_vars, date_vars, optimizer_vars>>

\* the start and end times a timing update carries
TimingChoices == {KitchenOpenHour * MinutesPerHour, KitchenOpenHour * MinutesPerHour + 25}

\* OrderRepository.update_task_timing: the task of that id gets the new start
\* and end; an unknown id, or an end that is not after the start, is an error
update_task_timing(tasks, task_id, start, end) ==
    IF task_id \notin 1..Len(tasks) \/ end <= start
    THEN [ok |-> FALSE, tasks |-> tasks]
    ELSE [ok |-> TRUE,
          tasks |-> [tasks EXCEPT ![task_id].start_time = start, ![task_id].end_time = end]]

\* PUT /tasks/{task_id}/timing; any error of the repository is answered 500
UpdateTaskTiming ==
    /\ requests < MaxRequests
    /\ \E task_id \in 1..(Len(db_scheduled_tasks) + 1), start \in TimingChoices,
          end \in TimingChoices :
        LET updated == update_task_timing(db_scheduled_tasks, task_id, start, end)
        IN /\ last_request' = [kind |-> "timing", task_id |-> task_id,
                               start |-> start, end |-> end]
           /\ db_scheduled_tasks' = updated.tasks
           /\ response' = [status |-> IF updated.ok THEN 200 ELSE 500, tasks |-> <<>>]
    /\ requests' = requests + 1
    /\ UNCHANGED <<today, db_orders, db_order_items, scheduler_calls, valid_seen>>
    /\ UNCHANGED <<seed_vars, heuristic_vars, date_vars, optimizer_vars>>

\* the status values a status update carries
StatusChoices == {"in-progress", "cancelled"}

\* OrderRepository.update_task_status: the task of that id gets the new
\* status as it came; an unknown id is an error
update_task_status(tasks, task_id, new_status) ==
    IF task_id \notin 1..Len(tasks)
    THEN [ok |-> FALSE, tasks |-> tasks]
    ELSE [ok |-> TRUE, tasks |-> [tasks EXCEPT ![task_id].status = new_status]]

\* PUT /tasks/{task_id}/status; any error of the repository is answered 500
UpdateTaskStatus ==
    /\ requests < MaxRequests
    /\ \E task_id \in 1..(Len(db_scheduled_tasks) + 1), status \in StatusChoices :
        LET updated == update_task_status(db_scheduled_tasks, task_id, status)
        IN /\ last_request' = [kind |-> "status", task_id |-> task_id, status |-> status]
           /\ db_scheduled_tasks' = updated.tasks
           /\ response' = [status |-> IF updated.ok THEN 200 ELSE 500, tasks |-> <<>>]
    /\ requests' = requests + 1
    /\ UNCHANGED <<today, db_orders, db_order_items, scheduler_calls, valid_seen>>
    /\ UNCHANGED <<seed_vars, heuristic_vars, date_vars, optimizer_vars>>

NextApi == CreateOrder \/ ValidateOrder \/ UpdateTaskTiming \/ UpdateTaskStatus

SpecApi == InitApi /\ [][NextApi]_vars

(***************************************************************************)
(* SpecDate: one call of OrderCreate.validate_delivery_date                *)
(* (backend/app/models.py) on a delivery_date string.  A string is the     *)
(* sequence of its characters; a date is <<year, month, day>>.             *)
(***************************************************************************)
Digits == <<"0", "1", "2", "3", "4", "5", "6", "7", "8", "9">>

IsDigit(ch) == \E k \in 1..Len(Digits) : Digits[k] = ch
DigitValue(ch) == (CHOOSE k \in 1..Len(Digits) : Digits[k] = ch) - 1

\* int() of a string of digits
RECURSIVE ParseNumber(_)
ParseNumber(chars) ==
    IF chars = <<>> THEN 0
    ELSE 10 * ParseNumber(SubSeq(chars, 1, Len(chars) - 1)) + DigitValue(chars[Len(chars)])

\* the fields of the string between the "-" of the format
RECURSIVE SplitFields(_, _)
SplitFields(chars, field) ==
    IF chars = <<>> THEN <<field>>
    ELSE IF Head(chars) = "-" THEN <<field>> \o SplitFields(Tail(chars), <<>>)
    ELSE SplitFields(Tail(chars), Append(field, Head(chars)))

IsLeapYear(y) == (y % 4 = 0 /\ y % 100 # 0) \/ y % 400 = 0

DaysInMonth(y, m) ==
    IF m = 2 THEN (IF IsLeapYear(y) THEN 29 ELSE 28)
    ELSE IF m \in {4, 6, 9, 11} THEN 30 ELSE 31

\* datetime.strptime(v, '%Y-%m-%d'): <<date>>, or <<>> for the ValueError.
\* %Y is four digits, %m one or two digits in 1..12, %d one or two digits in
\* 1..31, nothing may remain, and the day must exist in the month
strptime_date(chars) ==
    LET fields == SplitFields(chars, <<>>)
        all_digits(f) == \A k \in 1..Len(f) : IsDigit(f[k])
    IN IF Len(fields) # 3 THEN <<>>
       ELSE IF ~(/\ Len(fields[1]) = 4 /\ all_digits(fields[1])
                 /\ Len(fields[2]) \in 1..2 /\ all_digits(fields[2])
                 /\ Len(fields[3]) \in 1..2 /\ all_digits(fields[3])) THEN <<>>
       ELSE LET y == ParseNumber(fields[1])
                m == ParseNumber(fields[2])
                d == ParseNumber(fields[3])
            IN IF y >= 1 /\ m \in 1..12 /\ d \in 1..31 /\ d <= DaysInMonth(y, m)
               THEN <<<<y, m, d>>>> ELSE <<>>

\* date < date
DateBefore(a, b) ==
    \/ a[1] < b[1]
    \/ (a[1] = b[1] /\ a[2] < b[2])
    \/ (a[1] = b[1] /\ a[2] = b[2] /\ a[3] < b[3])

\* mutation of validate_delivery_date: the comparison with the current date
\* is left out
validate_delivery_date_any_day(v, now) ==
    IF strptime_date(v) = <<>>
    THEN "Invalid delivery date format. Use YYYY-MM-DD"
    ELSE "returned"

\* the ValueError of a date in the past is raised inside the try block, and
\* the except clause replaces it by the ValueError of the format
validate_delivery_date(v, now) ==
    LET parsed == strptime_date(v)
    IN IF parsed = <<>>
       THEN "Invalid delivery date format. Use YYYY-MM-DD"
       ELSE IF DateBefore(parsed[1], now)
            THEN "Invalid delivery date format. Use YYYY-MM-DD"
            ELSE "returned"

\* the strings handed to the validator: year, month and day fields joined by
\* "-" or by "/"
YearTexts == {<<"2", "0", "2", "4">>, <<"2", "0", "2", "5">>, <<"2", "5">>}
MonthTexts == {<<"0", "1">>, <<"1">>, <<"0", "2">>, <<"1", "3">>, <<"0", "0">>}
DayTexts == {<<"1", "7">>, <<"1", "8">>, <<"1", "9">>, <<"2", "9">>, <<"3", "0">>, <<"0">>}
SeparatorTexts == {"-", "/"}

DateTexts ==
    {y \o <<sep>> \o m \o <<sep>> \o d :
        y \in YearTexts, m \in MonthTexts, d \in DayTexts, sep \in SeparatorTexts}

\* the current dates of the calls
NowChoices == {<<2025, 1, 18>>, <<2025, 1, 19>>}

InitDate ==
    /\ SeedIdle
    /\ HeuristicIdle
    /\ ApiIdle
    /\ OptimizerIdle
    /\ date_pc = "ready"
    /\ date_text \in DateTexts
    /\ date_now \in NowChoices
    /\ date_result = "none"

ValidateDeliveryDate ==
    /\ date_pc = "ready"
    /\ date_result' = validate_delivery_date(date_text, date_now)
    /\ date_pc' = "done"
    /\ UNCHANGED <<date_text, date_now>>
    /\ UNCHANGED <<seed_vars, heuristic_vars, api_vars, optimizer_vars>>

NextDate == ValidateDeliveryDate

SpecDate == InitDate /\ [][NextDate]_vars

(***************************************************************************)
(* SpecOptimizer: one call of BakeryScheduler.schedule_orders on a         *)
(* scheduler that was just constructed                                     *)
(***************************************************************************)
\* orders per call
MaxOptOrders == 2
\* self.population_size (128 in the code)
PopulationSize == 2
\* self.max_iterations (50 in the code)
MaxIterations == 2
\* self.local_search_iters (20 in the code)
LocalSearchIters == 1
\* POPULATION_SIZE
InitialPopulationSize == 5
\* "if len(tabu_list) > 10"
TabuLimit == 10
\* calls of _mutate per call of schedule_orders
MaxMutations == 1

OptItemChoices ==
    { <<[product_id |-> CookiesProductId, quantity |-> 6]>>,
      <<[product_id |-> BrowniesProductId, quantity |-> 2]>> }

OptOrderInputs ==
    [delivery_date : DaysOffsetChoices, delivery_slot : SlotChoices, items : OptItemChoices]

\* the orders of the batch at hand and their recipe
BatchProduct == order_batches[batch_idx][1]
BatchOrders == order_batches[batch_idx][2]

Caches == [resource_usage_cache |-> resource_usage_cache, dependency_cache |-> dependency_cache]

\* _generate_initial_population: POPULATION_SIZE heuristic schedules of the
\* batch, as _initialize_population builds them
generate_initial_population(batch_orders, product_type) ==
    Bind(generate_heuristic_schedule(batch_orders, RecipeFor(product_type)[1]),
         LAMBDA run :
           Bind(TagSteps(run.tasks, product_type),
                LAMBDA schedule :
                  [ok |-> run.ok,
                   population |-> [k \in 1..InitialPopulationSize |-> schedule]]))

\* BakeryScheduler.__init__ has run; the orders are the argument of the call
InitOptimizer ==
    /\ SeedIdle
    /\ HeuristicIdle
    /\ ApiIdle
    /\ DateIdle
    /\ opt_pc = "ready"
    /\ \E n \in 1..MaxOptOrders :
         /\ \E raw \in [1..n -> OptOrderInputs] : opt_orders = WithIds(raw)
         /\ \E first \in 1..n :
              set_order = <<first>> \o [k \in 1..(n - 1) |-> IF k < first THEN k ELSE k + 1]
    /\ order_batches = <<>>
    /\ batch_idx = 0
    /\ all_tasks = <<>>
    /\ population = <<>>
    /\ new_population = <<>>
    /\ elite = <<>>
    /\ elite_scores = <<>>
    /\ iteration = 0
    /\ best_schedule = <<>>
    /\ best_score = NegInf
    /\ current = <<>>
    /\ tabu_list = {}
    /\ ls_iter = 0
    /\ resource_usage_cache = EmptyUsageCache
    /\ dependency_cache = {}
    /\ opt_result = [kind |-> "none"]
    /\ mutations = 0

\* schedule_orders up to the loop over the batches
StartScheduleOrders ==
    /\ opt_pc = "ready"
    /\ all_tasks' = <<>>
    /\ resource_usage_cache' = EmptyUsageCache
    /\ dependency_cache' = {}
    /\ order_batches' = group_orders_for_batching(SortApiOrders(opt_orders), <<>>)
    /\ batch_idx' = 1
    /\ opt_pc' = "batch"
    /\ UNCHANGED <<opt_orders, set_order, population, new_population, elite, elite_scores,
                   iteration, best_schedule, best_score, current, tabu_list, ls_iter,
                   opt_result>>
    /\ UNCHANGED <<mutations, seed_vars, heuristic_vars, api_vars, date_vars>>

\* "recipe = self.recipes[product_type]" and the head of _schedule_batch
BeginBatch ==
    /\ opt_pc = "batch"
    /\ batch_idx <= Len(order_batches)
    /\ IF RecipeFor(BatchProduct) = <<>>
       THEN /\ opt_pc' = "failed"
            /\ opt_result' = [kind |-> "KeyError"]
            /\ UNCHANGED <<population, best_schedule, best_score, iteration>>
       ELSE \E initial \in {generate_initial_population(BatchOrders, BatchProduct)} :
          IF ~initial.ok
          THEN /\ opt_pc' = "failed"
               /\ opt_result' = [kind |-> "NoFeasibleSlotError"]
               /\ UNCHANGED <<population, best_schedule, best_score, iteration>>
          ELSE /\ population' = initial.population
               /\ best_schedule' = <<>>
               /\ best_score' = NegInf
               /\ iteration' = 0
               /\ opt_pc' = "generation"
               /\ UNCHANGED opt_result
    /\ UNCHANGED <<opt_orders, set_order, order_batches, batch_idx, all_tasks, new_population,
                   elite, elite_scores, current, tabu_list, ls_iter, resource_usage_cache,
                   dependency_cache>>
    /\ UNCHANGED <<mutations, seed_vars, heuristic_vars, api_vars, date_vars>>

\* "elite = sorted(population, key=self._calculate_ets_score)[-2:]"
SelectElite ==
    /\ opt_pc = "generation"
    /\ iteration < MaxIterations
    /\ \E scored \in {ScoreEach(population, set_order, Caches, <<>>)} :
         \E chosen \in {LastTwo(SortedByScore(scored.scores))} :
            /\ elite' = [k \in 1..Len(chosen) |-> population[chosen[k]]]
            /\ elite_scores' = [k \in 1..Len(chosen) |-> scored.scores[chosen[k]]]
            /\ resource_usage_cache' = scored.resource_usage_cache
            /\ dependency_cache' = scored.dependency_cache
    /\ new_population' = <<>>
    /\ opt_pc' = "fill"
    /\ UNCHANGED <<opt_orders, set_order, order_batches, batch_idx, all_tasks, population,
                   iteration, best_schedule, best_score, current, tabu_list, ls_iter,
                   opt_result>>
    /\ UNCHANGED <<mutations, seed_vars, heuristic_vars, api_vars, date_vars>>

\* "random.random() < self.mutation_rate" as a number of calls of _mutate
Drawn(mutate) == IF mutate THEN 1 ELSE 0

\* _mutate: one task moved one buffer earlier or later
Mutations(child) ==
    {ShiftTask(child, k, delta) : k \in 1..Len(child),
                                  delta \in {-StepBufferMinutes, StepBufferMinutes}}

\* one round of the while loop with random.random() < self.crossover_rate:
\* _tournament_select draws the parents, each child is mutated or not
Crossover ==
    /\ opt_pc = "fill"
    /\ Len(new_population) < PopulationSize
    /\ \E p1 \in 1..Len(population), p2 \in 1..Len(population),
          order_id \in SeqRange(set_order) :
         LET children == crossover(population[p1], population[p2], order_id)
         IN \E mutate1 \in BOOLEAN, mutate2 \in BOOLEAN :
              /\ mutations + Drawn(mutate1) + Drawn(mutate2) <= MaxMutations
              /\ mutations' = mutations + Drawn(mutate1) + Drawn(mutate2)
              /\ \E child1 \in IF mutate1 THEN Mutations(children[1]) ELSE {children[1]},
                     child2 \in IF mutate2 THEN Mutations(children[2]) ELSE {children[2]} :
                   new_population' = new_population \o <<child1, child2>>
    /\ UNCHANGED <<opt_pc, opt_orders, set_order, order_batches, batch_idx, all_tasks,
                   population, elite, elite_scores, iteration, best_schedule, best_score,
                   current, tabu_list, ls_iter, resource_usage_cache, dependency_cache,
                   opt_result>>
    /\ UNCHANGED <<seed_vars, heuristic_vars, api_vars, date_vars>>

\* one round of the while loop with random.random() >= self.crossover_rate
SkipCrossover ==
    /\ opt_pc = "fill"
    /\ Len(new_population) < PopulationSize
    /\ UNCHANGED <<opt_pc, opt_orders, set_order, order_batches, batch_idx, all_tasks,
                   population, new_population, elite, elite_scores, iteration,
                   best_schedule, best_score, current, tabu_list, ls_iter,
                   resource_usage_cache, dependency_cache, opt_result>>
    /\ UNCHANGED <<mutations, seed_vars, heuristic_vars, api_vars, date_vars>>

\* mutation of AddElite: the elite is not added to the new population
AddElite_without_elite ==
    /\ opt_pc = "fill"
    /\ Len(new_population) >= PopulationSize
    /\ \E scored \in {ScoreEach(new_population, set_order, Caches, <<>>)} :
         /\ current' = new_population[MaxByScore(scored.scores)]
         /\ resource_usage_cache' = scored.resource_usage_cache
         /\ dependency_cache' = scored.dependency_cache
    /\ tabu_list' = {}
    /\ ls_iter' = 0
    /\ opt_pc' = "search"
    /\ UNCHANGED <<opt_orders, set_order, order_batches, batch_idx, all_tasks, population,
                   new_population, elite, elite_scores, iteration, best_schedule, best_score,
                   opt_result>>
    /\ UNCHANGED <<mutations, seed_vars, heuristic_vars, api_vars, date_vars>>

\* "new_population.extend(elite)", "best_candidate = max(new_population, ...)"
\* and the head of _local_search
AddElite ==
    /\ opt_pc = "fill"
    /\ Len(new_population) >= PopulationSize
    /\ \E extended \in {new_population \o elite} :
         \E scored \in {ScoreEach(extended, set_order, Caches, <<>>)} :
            /\ new_population' = extended
            /\ current' = extended[MaxByScore(scored.scores)]
            /\ resource_usage_cache' = scored.resource_usage_cache
            /\ dependency_cache' = scored.dependency_cache
    /\ tabu_list' = {}
    /\ ls_iter' = 0
    /\ opt_pc' = "search"
    /\ UNCHANGED <<opt_orders, set_order, order_batches, batch_idx, all_tasks, population,
                   elite, elite_scores, iteration, best_schedule, best_score, opt_result>>
    /\ UNCHANGED <<mutations, seed_vars, heuristic_vars, api_vars, date_vars>>

\* one round of the loop of _local_search
LocalSearchStep ==
    /\ opt_pc = "search"
    /\ ls_iter < LocalSearchIters
    /\ \E valid_neighbors \in {SelectSeq(get_neighbors(current),
                                          LAMBDA n : get_move_hash(n) \notin tabu_list)} :
         IF valid_neighbors = <<>>
         THEN UNCHANGED <<current, tabu_list, resource_usage_cache, dependency_cache>>
         ELSE \E scored \in {ScoreEach(valid_neighbors, set_order, Caches, <<>>)} :
                \E best_neighbor \in {valid_neighbors[MaxByScore(scored.scores)]} :
                   \E added \in {tabu_list \cup {get_move_hash(best_neighbor)}} :
                      /\ current' = best_neighbor
                      /\ resource_usage_cache' = scored.resource_usage_cache
                      /\ dependency_cache' = scored.dependency_cache
                      /\ IF Cardinality(added) > TabuLimit
                         THEN \E popped \in added : tabu_list' = added \ {popped}
                         ELSE tabu_list' = added
    /\ ls_iter' = ls_iter + 1
    /\ UNCHANGED <<opt_pc, opt_orders, set_order, order_batches, batch_idx, all_tasks,
                   population, new_population, elite, elite_scores, iteration,
                   best_schedule, best_score, opt_result>>
    /\ UNCHANGED <<mutations, seed_vars, heuristic_vars, api_vars, date_vars>>

\* mutation of EndGeneration: the generation is not counted
EndGeneration_uncounted ==
    /\ opt_pc = "search"
    /\ ls_iter = LocalSearchIters
    /\ \E scored \in {calculate_ets_score(current, set_order, Caches)} :
          /\ IF ScoreLess(best_score, scored.score)
             THEN best_score' = scored.score /\ best_schedule' = <<current>>
             ELSE UNCHANGED <<best_score, best_schedule>>
          /\ resource_usage_cache' = scored.resource_usage_cache
          /\ dependency_cache' = scored.dependency_cache
    /\ population' = new_population
    /\ opt_pc' = "generation"
    /\ UNCHANGED <<opt_orders, set_order, order_batches, batch_idx, all_tasks,
                   new_population, elite, elite_scores, current, tabu_list, ls_iter,
                   iteration, opt_result>>
    /\ UNCHANGED <<mutations, seed_vars, heuristic_vars, api_vars, date_vars>>

\* "score = self._calculate_ets_score(improved)" to the end of the generation
EndGeneration ==
    /\ opt_pc = "search"
    /\ ls_iter = LocalSearchIters
    /\ \E scored \in {calculate_ets_score(current, set_order, Caches)} :
          /\ IF ScoreLess(best_score, scored.score)
             THEN best_score' = scored.score /\ best_schedule' = <<current>>
             ELSE UNCHANGED <<best_score, best_schedule>>
          /\ resource_usage_cache' = scored.resource_usage_cache
          /\ dependency_cache' = scored.dependency_cache
    /\ population' = new_population
    /\ iteration' = iteration + 1
    /\ opt_pc' = "generation"
    /\ UNCHANGED <<opt_orders, set_order, order_batches, batch_idx, all_tasks,
                   new_population, elite, elite_scores, current, tabu_list, ls_iter,
                   opt_result>>
    /\ UNCHANGED <<mutations, seed_vars, heuristic_vars, api_vars, date_vars>>

\* "return best_schedule" and "all_tasks.extend(batch_tasks)"
EndBatch ==
    /\ opt_pc = "generation"
    /\ iteration = MaxIterations
    /\ IF best_schedule = <<>>
       THEN /\ opt_pc' = "failed"
            /\ opt_result' = [kind |-> "TypeError"]
            /\ UNCHANGED <<all_tasks, batch_idx>>
       ELSE /\ all_tasks' = all_tasks \o best_schedule[1]
            /\ batch_idx' = batch_idx + 1
            /\ opt_pc' = "batch"
            /\ UNCHANGED opt_result
    /\ UNCHANGED <<opt_orders, set_order, order_batches, population, new_population, elite,
                   elite_scores, iteration, best_schedule, best_score, current, tabu_list,
                   ls_iter, resource_usage_cache, dependency_cache>>
    /\ UNCHANGED <<mutations, seed_vars, heuristic_vars, api_vars, date_vars>>

\* mutation of ReturnTasks: the tasks are returned in the reverse of the
\* order in which they were constructed
ReturnTasks_reversed ==
    /\ opt_pc = "batch"
    /\ batch_idx > Len(order_batches)
    /\ opt_result' = [kind |-> "tasks",
                      tasks |-> [k \in 1..Len(all_tasks) |-> all_tasks[Len(all_tasks) + 1 - k]]]
    /\ opt_pc' = "done"
    /\ UNCHANGED <<opt_orders, set_order, order_batches, batch_idx, all_tasks, population,
                   new_population, elite, elite_scores, iteration, best_schedule, best_score,
                   current, tabu_list, ls_iter, resource_usage_cache, dependency_cache>>
    /\ UNCHANGED <<mutations, seed_vars, heuristic_vars, api_vars, date_vars>>

\* "return sorted(all_tasks, key=lambda t: t.startTime)"
ReturnTasks ==
    /\ opt_pc = "batch"
    /\ batch_idx > Len(order_batches)
    /\ opt_result' = [kind |-> "tasks", tasks |-> SortTasks(all_tasks)]
    /\ opt_pc' = "done"
    /\ UNCHANGED <<opt_orders, set_order, order_batches, batch_idx, all_tasks, population,
                   new_population, elite, elite_scores, iteration, best_schedule, best_score,
                   current, tabu_list, ls_iter, resource_usage_cache, dependency_cache>>
    /\ UNCHANGED <<mutations, seed_vars, heuristic_vars, api_vars, date_vars>>

NextOptimizer ==
    \/ StartScheduleOrders
    \/ BeginBatch
    \/ SelectElite
    \/ Crossover
    \/ SkipCrossover
    \/ AddElite
    \/ LocalSearchStep
    \/ EndGeneration
    \/ EndBatch
    \/ ReturnTasks

SpecOptimizer == InitOptimizer /\ [][NextOptimizer]_vars

\* the calls whose orders are for different products, one order a batch
InitOptimizerFair ==
    /\ InitOptimizer
    /\ \A j \in 1..Len(opt_orders), k \in 1..Len(opt_orders) :
         j # k => opt_orders[j].items[1].product_id # opt_orders[k].items[1].product_id

\* these calls with every step that can be taken taken in the end: a round
\* of the filling loop whose draw is below crossover_rate comes eventually
SpecOptimizerFair == InitOptimizerFair /\ [][NextOptimizer]_vars /\ WF_vars(NextOptimizer)

(***************************************************************************)
(* Reading the scheduled tasks back against the orders and the recipes     *)
(***************************************************************************)
TaskIndices == 1..Len(scheduled_tasks)

OrderById(id) == orders[CHOOSE k \in 1..Len(orders) : orders[k].id = id]
ItemOfTask(t) == OrderById(t.order_id).items[t.order_item_id[2]]
RecipeOfTask(t) == RecipeFor(ItemOfTask(t).product_id)[1]
StepIndexOfTask(t) ==
    CHOOSE k \in 1..Len(RecipeOfTask(t).steps) : Lower(RecipeOfTask(t).steps[k].name) = t.step
StepOfTask(t) == RecipeOfTask(t).steps[StepIndexOfTask(t)]
TaskDuration(t) == t.end_time - t.start_time

\* number of units of a resource: its rows in resources_data
ResourceCapacity(r) == Cardinality({k \in 1..Len(resources_data) : resources_data[k].name = r})
ResourceNames == {resources_data[k].name : k \in 1..Len(resources_data)}
UsesResource(t, r) == \E k \in 1..Len(t.resources) : t.resources[k] = r

\* tasks that use resource r and whose [start, end) contains the instant
ConcurrentAt(r, instant) ==
    Cardinality({i \in TaskIndices :
        /\ UsesResource(scheduled_tasks[i], r)
        /\ scheduled_tasks[i].start_time <= instant
        /\ instant < scheduled_tasks[i].end_time})

\* the search of the item's first step was moved off its starting point
Pushed(i) ==
    /\ StepIndexOfTask(scheduled_tasks[i]) = 1
    /\ scheduled_tasks[i].start_time >
         InitialCurrentTime(OrderById(scheduled_tasks[i].order_id),
                            RecipeOfTask(scheduled_tasks[i]).steps)

MinuteOfDay(t) == t % MinutesPerDay

(***************************************************************************)
(* Claims                                                                  *)
(***************************************************************************)

\* C1: at every instant and for every resource, the number of tasks that use
\* the resource and whose [start, end) contains the instant is at most the
\* resource's capacity.  The number of running tasks only rises at the start
\* of a task, so the instants to look at are the tasks' start times.
C1_CapacityRespected ==
    \A r \in ResourceNames : \A i \in TaskIndices :
        ConcurrentAt(r, scheduled_tasks[i].start_time) <= ResourceCapacity(r)

\* two orders competed for the resource and the later one was moved
C1_Witness ==
    /\ pc = "done"
    /\ \E i \in TaskIndices : Pushed(i)

C4_ImmediateFollow ==
    \A i, j \in TaskIndices :
        (/\ scheduled_tasks[i].order_item_id = scheduled_tasks[j].order_item_id
         /\ StepIndexOfTask(scheduled_tasks[j]) = StepIndexOfTask(scheduled_tasks[i]) + 1
         /\ StepOfTask(scheduled_tasks[j]).must_follow_immediately)
        => scheduled_tasks[j].start_time = scheduled_tasks[i].end_time

\* C5: every task of an order ends no later than the delivery time minus the
\* one-hour pre-delivery buffer.
C5_BeforeDeadline ==
    \A i \in TaskIndices :
        scheduled_tasks[i].end_time <=
            DeliveryDatetime(OrderById(scheduled_tasks[i].order_id)) - PreDeliveryBufferMinutes

\* C6: every task lies within the kitchen hours of one day.
C6_WithinKitchenHours ==
    \A i \in TaskIndices :
        LET t == scheduled_tasks[i]
        IN /\ MinuteOfDay(t.start_time) >= KitchenOpenHour * MinutesPerHour
           /\ MinuteOfDay(t.start_time) + TaskDuration(t) <= KitchenCloseHour * MinutesPerHour

\* C8: no task has a batch size below the recipe's min_batch_size, and per
\* item at most one batch (the remainder batch) is above max_batch_size.
C8_BatchWithinBounds ==
    /\ \A i \in TaskIndices :
         scheduled_tasks[i].batch_size >= RecipeOfTask(scheduled_tasks[i]).min_batch_size
    /\ \A i \in TaskIndices :
         scheduled_tasks[i].batch_size <= RecipeOfTask(scheduled_tasks[i]).max_batch_size

\* the batch-size adjustments tried: every hundredth up to 4
AdjustmentChoices == {k : k \in 1..400}

\* |minutes - duration * pct/100 * adj/100| <= 1/2: minutes is the product
\* rounded to a whole minute (whichever way a tie is broken)
IsRounded(minutes, duration, pct, adj) ==
    LET scaled == duration * pct * adj
        diff == minutes * 10000 - scaled
    IN 2 * diff <= 10000 /\ 2 * diff >= -10000

\* C10: the tasks of one batch have the durations base duration x
\* scaling factor x batch-size adjustment, rounded to the minute, for one
\* adjustment of that batch.
C10_DurationScaled ==
    \A i \in TaskIndices :
        \E adj \in AdjustmentChoices :
            \A j \in TaskIndices :
                scheduled_tasks[j].order_item_id = scheduled_tasks[i].order_item_id
                => IsRounded(TaskDuration(scheduled_tasks[j]),
                             StepOfTask(scheduled_tasks[j]).duration,
                             StepOfTask(scheduled_tasks[j]).scaling_factor_pct, adj)

\* the batches the batch planner makes of a quantity: max_batch_size until
\* the rest fits one batch; a rest below min_batch_size either makes a batch
\* of its own or is merged into the batch before it
BatchCounts(quantity, recipe) ==
    LET full == quantity \div recipe.max_batch_size
        rest == quantity % recipe.max_batch_size
    IN IF rest = 0 THEN {full}
       ELSE IF full > 0 /\ rest < recipe.min_batch_size THEN {full, full + 1}
       ELSE {full + 1}

\* the numbers of batches the items of an order can come to together
RECURSIVE OrderBatchCounts(_, _)
OrderBatchCounts(items, recipe) ==
    IF items = <<>> THEN {0}
    ELSE {a + b : a \in BatchCounts(Head(items).quantity, recipe),
                  b \in OrderBatchCounts(Tail(items), recipe)}

\* the tasks the run made for one step of one order
HeuristicTasksOf(order_id, step_name) ==
    {k \in 1..Len(h_schedule.tasks) :
        /\ h_schedule.tasks[k].orderId = order_id
        /\ h_schedule.tasks[k].step = step_name}

RECURSIVE SumBatchSizes(_)
SumBatchSizes(indices) ==
    IF indices = {} THEN 0
    ELSE LET k == CHOOSE x \in indices : TRUE
         IN h_schedule.tasks[k].batchSize + SumBatchSizes(indices \ {k})

\* C2: the persisted tasks of all orders together keep every resource
\* category within its capacity at every instant (the instants to look at
\* are the start times of the persisted tasks).
C2_PersistedCapacityRespected ==
    \A r \in ResourceCategories : \A i \in 1..Len(db_scheduled_tasks) :
        Cardinality({j \in 1..Len(db_scheduled_tasks) :
            /\ UsesResource(db_scheduled_tasks[j], r)
            /\ db_scheduled_tasks[j].start_time <= db_scheduled_tasks[i].start_time
            /\ db_scheduled_tasks[i].start_time < db_scheduled_tasks[j].end_time})
        <= CategoryCapacity(r)

\* C7: for every order, the batch sizes of the tasks of each recipe step sum
\* to at least the quantities of the order's items (every batch passes every
\* step once, so a step's tasks carry everything that is produced).
C7_NoUnderProduction ==
    (h_pc = "done" /\ h_schedule.ok) =>
        \A o \in 1..Len(h_orders) : \A k \in 1..Len(HeuristicRecipe.steps) :
            SumBatchSizes(HeuristicTasksOf(h_orders[o].id, HeuristicRecipe.steps[k].name))
                >= SumQuantities(h_orders[o].items)

\* C9: for every order and every recipe step, the schedule holds one task per
\* batch of every item of the order.
C9_OneTaskPerBatchStep ==
    (h_pc = "done" /\ h_schedule.ok) =>
        \A o \in 1..Len(h_orders) : \A k \in 1..Len(HeuristicRecipe.steps) :
            Cardinality(HeuristicTasksOf(h_orders[o].id, HeuristicRecipe.steps[k].name))
                \in OrderBatchCounts(h_orders[o].items, HeuristicRecipe)

C13_ValidationGatesScheduling ==
    [][(requests' = requests + 1 /\ last_request'.kind = "create")
       => LET checked == validate_order(RequestOrder(requests + 1, last_request'.order), today)
          IN IF checked.isValid
             THEN scheduler_calls' = scheduler_calls + 1
             ELSE /\ scheduler_calls' = scheduler_calls
                  /\ db_orders' = db_orders
                  /\ db_order_items' = db_order_items
                  /\ db_scheduled_tasks' = db_scheduled_tasks]_vars

\* an order with a delivery date in the past was turned down after another
\* order had been scheduled and stored
C13_Witness ==
    /\ last_request.kind = "create"
    /\ last_request.order.delivery_date < today
    /\ response.status = 400
    /\ scheduler_calls = 1
    /\ Len(db_orders) = 1

CalendarDays ==
    {<<y, m, d>> \in {2024, 2025} \X (1..12) \X (1..31) : d <= DaysInMonth(y, m)}

TwoDigits(n) == <<Digits[(n \div 10) + 1], Digits[(n % 10) + 1]>>
NumberTexts(n) == IF n < 10 THEN {TwoDigits(n), <<Digits[n + 1]>>} ELSE {TwoDigits(n)}
YearText(y) == TwoDigits(y \div 100) \o TwoDigits(y % 100)

DayTextsOf(day) ==
    {YearText(day[1]) \o <<"-">> \o m \o <<"-">> \o d :
        m \in NumberTexts(day[2]), d \in NumberTexts(day[3])}

\* the days the string names (none when it is not a date in the format)
DaysNamed(chars) == {day \in CalendarDays : chars \in DayTextsOf(day)}

\* C14 as stated: a delivery date is accepted only when it is a real,
\* parseable date in the future, after the current date.
C14_RejectsNonFuture ==
    (date_pc = "done" /\ date_result = "returned")
    => \E day \in DaysNamed(date_text) : DateBefore(date_now, day)

\* C14 as amended: a delivery date is accepted exactly when it is a real,
\* parseable date that is not before the current date; the current date
\* itself is accepted.
C14_RejectsPast ==
    date_pc = "done"
    => (date_result = "returned"
        <=> \E day \in DaysNamed(date_text) : ~DateBefore(day, date_now))

\* the current date was accepted as the delivery date
C14_Witness ==
    /\ date_pc = "done"
    /\ date_result = "returned"
    /\ date_now \in DaysNamed(date_text)

\* C16: an order with an item whose product has no recipe gets no task at
\* all: every stored task belongs to an order all of whose items have a
\* recipe.
C16_UnknownProductFailsOrder ==
    \A i \in TaskIndices :
        \A k \in 1..Len(OrderById(scheduled_tasks[i].order_id).items) :
            RecipeFor(OrderById(scheduled_tasks[i].order_id).items[k].product_id) # <<>>

\* where the search for the start of a task began: current_time, set from
\* the delivery time for the first step of an item and from the end of the
\* step before it for the others
SearchAnchor(i) ==
    IF StepIndexOfTask(scheduled_tasks[i]) = 1
    THEN InitialCurrentTime(OrderById(scheduled_tasks[i].order_id),
                            RecipeOfTask(scheduled_tasks[i]).steps)
    ELSE scheduled_tasks[i - 1].end_time + StepBufferMinutes

C18_FailureLeavesNoTrace ==
    opt_pc = "failed" =>
        /\ resource_usage_cache = EmptyUsageCache
        /\ dependency_cache = {}

\* the recipe step a task of a candidate stands for
StepPlace(task) ==
    LET steps == RecipeFor(task.step[1])[1].steps
    IN CHOOSE k \in 1..Len(steps) : steps[k].name = task.step[2]

\* no task of an order starts before the task of an earlier step of the
\* order has ended
StepOrderKept(schedule) ==
    \A a \in 1..Len(schedule), b \in 1..Len(schedule) :
        (/\ schedule[a].orderId = schedule[b].orderId
         /\ StepPlace(schedule[a]) < StepPlace(schedule[b]))
            => schedule[a].endTime <= schedule[b].startTime

\* at no instant does a resource category run more tasks than it has
NoResourceOverflow(schedule) ==
    \A r \in ResourceCategories : \A a \in 1..Len(schedule) :
        r \in SeqRange(schedule[a].resources) =>
            Cardinality({b \in 1..Len(schedule) :
                            /\ r \in SeqRange(schedule[b].resources)
                            /\ schedule[b].startTime <= schedule[a].startTime
                            /\ schedule[a].startTime < schedule[b].endTime})
                <= CategoryCapacity(r)

\* C19: the schedule that the search of a batch hands back when its
\* iterations are used up has no resource overflow and no step-order
\* violation.
C19_ReturnsFeasibleOnly ==
    \A k \in 1..Len(best_schedule) :
        opt_pc \in {"batch", "done"} =>
            /\ StepOrderKept(best_schedule[k])
            /\ NoResourceOverflow(best_schedule[k])

\* C20: neither of the two elite candidates of a generation has the score
\* minus infinity.
C20_EliteNeverInfeasible ==
    \A k \in 1..Len(elite_scores) : elite_scores[k] # NegInf

\* C28: at the start of every generation the population holds as many
\* candidates as the initial population.
C28_PopulationSizeConstant ==
    opt_pc = "generation" => Len(population) = InitialPopulationSize

\* C23: two candidates that are the same schedule have the same fitness,
\* whichever of them was evaluated first.
C23_VerdictIndependentOfHistory ==
    \A j \in 1..Len(elite), k \in 1..Len(elite) :
        elite[j] = elite[k] => elite_scores[j] = elite_scores[k]

\* two tasks of the schedule share a resource and their [start, end)
\* intervals overlap
PairwiseConflict(schedule) ==
    \E a \in 1..Len(schedule), b \in 1..Len(schedule) :
        /\ a # b
        /\ SeqRange(schedule[a].resources) \cap SeqRange(schedule[b].resources) # {}
        /\ schedule[a].startTime < schedule[b].endTime
        /\ schedule[b].startTime < schedule[a].endTime

\* C27: _is_feasible, called on a candidate of the population with the caches
\* as they are at the start of a generation, returns False when two tasks of
\* the candidate that share a resource overlap.
C27_FeasibilityIsPairwise ==
    opt_pc = "generation" =>
        \A k \in 1..Len(population) :
            PairwiseConflict(population[k])
                => ~is_feasible(population[k], set_order, Caches).ok

\* C22: a neighbour that _local_search moves to is feasible and has a
\* strictly higher fitness than the schedule it replaces.
C22_AcceptsOnlyImprovingMoves ==
    [][(opt_pc = "search" /\ current' # current) =>
          \E caches \in {[resource_usage_cache |-> resource_usage_cache',
                          dependency_cache |-> dependency_cache']} :
             /\ is_feasible(current', set_order, caches).ok
             /\ ScoreLess(calculate_ets_score(current, set_order, caches).score,
                          calculate_ets_score(current', set_order, caches).score)]_vars

\* how often a candidate occurs in a list of candidates
CountIn(candidates, x) == Cardinality({k \in 1..Len(candidates) : candidates[k] = x})

\* the elite is two members of the population, and no other member has a
\* higher fitness than either of them
TwoHighest(chosen, candidates, scores) ==
    \E a \in 1..Len(candidates), b \in 1..Len(candidates) :
        /\ a # b
        /\ chosen = <<candidates[a], candidates[b]>>
        /\ \A other \in 1..Len(candidates) \ {a, b} :
             /\ ~ScoreLess(scores[a], scores[other])
             /\ ~ScoreLess(scores[b], scores[other])

FreeBefore(i, t, duration) ==
    \A j \in 1..(i - 1) :
        ~Overlaps(t, t + duration,
                  <<scheduled_tasks[j].start_time, scheduled_tasks[j].end_time>>)

\* C26: the start that find_available_slot returned for a task is the
\* earliest free one: no minute from the point the search began from up to
\* the returned start is a start at which the task would overlap none of
\* the intervals booked before it.
C26_EarliestFeasibleSlot ==
    \A i \in TaskIndices :
        \A t \in SearchAnchor(i)..(scheduled_tasks[i].start_time - 1) :
            ~FreeBefore(i, t, TaskDuration(scheduled_tasks[i]))

\* the stored tasks of an order, in the order in which they were stored
StoredTasksOf(order_id) == SelectSeq(db_scheduled_tasks, LAMBDA t : t.order_id = order_id)

\* C29: right after POST /orders answered 200, the stored tasks of the new
\* order are the tasks of the answer, one for one: as many, with the same
\* step, start, end and batch size.
C29_AllTasksStored ==
    (last_request.kind = "create" /\ response.status = 200) =>
        \E stored \in {StoredTasksOf(requests)} :
            /\ Len(stored) = Len(response.tasks)
            /\ \A k \in 1..Len(stored) :
                 /\ stored[k].step = response.tasks[k].step
                 /\ stored[k].start_time = response.tasks[k].startTime
                 /\ stored[k].end_time = response.tasks[k].endTime
                 /\ stored[k].batch_size = response.tasks[k].batchSize

\* the status values of a task
TaskStatuses == {"pending", "in-progress", "completed", "blocked"}

\* C25: every stored task has one of the four status values; a status update
\* to any other value is turned down and leaves the stored tasks as they
\* were, and so does a status update for a task that does not exist.
C25_StatusAlwaysKnown ==
    /\ [](\A i \in 1..Len(db_scheduled_tasks) : db_scheduled_tasks[i].status \in TaskStatuses)
    /\ [][(/\ requests' = requests + 1
           /\ last_request'.kind = "status"
           /\ \/ last_request'.status \notin TaskStatuses
              \/ last_request'.task_id \notin 1..Len(db_scheduled_tasks))
          => (response'.status # 200 /\ db_scheduled_tasks' = db_scheduled_tasks)]_vars

\* C30: a POST /orders request that is not answered 200 leaves the stored
\* orders, order items and tasks as they were.
C30_CreateAllOrNothing ==
    [][(/\ requests' = requests + 1
        /\ last_request'.kind = "create"
        /\ response'.status # 200)
       => /\ db_orders' = db_orders
          /\ db_order_items' = db_order_items
          /\ db_scheduled_tasks' = db_scheduled_tasks]_vars

\* C24: every call of schedule_orders comes to its end, returning the tasks
\* or raising; no batch runs more than max_iterations generations and no
\* local search more than local_search_iters rounds, a batch is left only
\* after max_iterations generations and a local search only after
\* local_search_iters rounds.
C24_OptimizerTerminates ==
    /\ <>(opt_pc \in {"done", "failed"})
    /\ [](iteration <= MaxIterations /\ ls_iter <= LocalSearchIters)
    /\ [][/\ (opt_pc = "generation" /\ opt_pc' # "generation" /\ opt_pc' # "fill")
               => iteration = MaxIterations
          /\ (opt_pc = "search" /\ opt_pc' # "search") => ls_iter = LocalSearchIters]_vars

\* a call returned its tasks after the last generation of its batch and the
\* last round of its local search
C24_Witness ==
    /\ opt_pc = "done"
    /\ iteration = MaxIterations
    /\ ls_iter = LocalSearchIters
    /\ opt_result.kind = "tasks"
    /\ Len(opt_result.tasks) > 0

====
